---------------------------- MODULE Spec2Model ----------------------------
(***************************************************************************)
(* Model of ultrasonics/official_plugins/"up_local csv playlists.py":      *)
(* the run() entry point of the local csv playlists plugin.                *)
(*                                                                         *)
(* Strings that the code takes apart (directory paths, file names, csv     *)
(* lines, filter patterns) are sequences of one-character strings, so that *)
(* rstrip, os.path.splitext, os.path.join and csv.reader are computed the  *)
(* way the library computes them (POSIX flavour of os.path).               *)
(***************************************************************************)
EXTENDS Naturals, Sequences, FiniteSets

(***************************************************************************)
(* Bounds of the model.                                                    *)
(***************************************************************************)
MaxEntries == 3      \* entries (files and directories) in the directory tree
MaxRows == 3         \* lines of a playlist file in the row family
MaxDirLen == 4       \* characters of a directory setting in SpecNorm

(***************************************************************************)
(* String helpers.                                                         *)
(***************************************************************************)
RECURSIVE RStrip(_, _)
\* str.rstrip(c) for a single character c
RStrip(s, c) ==
    IF s # <<>> /\ s[Len(s)] = c
    THEN RStrip(SubSeq(s, 1, Len(s) - 1), c)
    ELSE s

\* line 76: settings_dict["dir"].rstrip("/").rstrip("\\")
NormalizePath(dir) == RStrip(RStrip(dir, "/"), "\\")

\* str.rfind(c), 1-based; 0 when c does not occur
RFind(s, c) ==
    IF \E i \in 1..Len(s) : s[i] = c
    THEN CHOOSE i \in 1..Len(s) : s[i] = c /\ \A j \in (i + 1)..Len(s) : s[j] # c
    ELSE 0

\* the index of the dot that starts the extension, 0 when there is none:
\* genericpath._splitext skips the leading dots of the last component
ExtIndex(p) ==
    LET sepIndex == RFind(p, "/")
        dotIndex == RFind(p, ".")
    IN  IF dotIndex > sepIndex
           /\ \E k \in (sepIndex + 1)..(dotIndex - 1) : p[k] # "."
        THEN dotIndex
        ELSE 0

\* os.path.splitext(p)[0]
SplitExtRoot(p) ==
    IF ExtIndex(p) = 0 THEN p ELSE SubSeq(p, 1, ExtIndex(p) - 1)

\* os.path.splitext(p)[1]
SplitExtExt(p) ==
    IF ExtIndex(p) = 0 THEN <<>> ELSE SubSeq(p, ExtIndex(p), Len(p))

\* os.path.join(root, item)
PathJoin(root, item) ==
    IF item # <<>> /\ item[1] = "/" THEN item
    ELSE IF root = <<>> \/ root[Len(root)] = "/" THEN root \o item
    ELSE root \o <<"/">> \o item

\* line 42: supported_playlist_extensions
supported_playlist_extensions == { <<".", "c", "s", "v">> }

(***************************************************************************)
(* csv.reader(csvFile, delimiter=','): one list of columns per line; a     *)
(* blank line gives the empty list.  The lines of the model hold no quote  *)
(* characters.                                                             *)
(***************************************************************************)
RECURSIVE SplitComma(_)
SplitComma(line) ==
    IF \E i \in 1..Len(line) : line[i] = ","
    THEN LET i == CHOOSE k \in 1..Len(line) :
                      line[k] = "," /\ \A j \in 1..(k - 1) : line[j] # ","
         IN  <<SubSeq(line, 1, i - 1)>> \o SplitComma(SubSeq(line, i + 1, Len(line)))
    ELSE <<line>>

CsvRow(line) == IF line = <<>> THEN <<>> ELSE SplitComma(line)

CsvReader(lines) == [k \in 1..Len(lines) |-> CsvRow(lines[k])]

\* the highest column index the loop body reads is 3: a row needs 4 columns
MinColumns == 4

\* a variant of lines 137-141 with title and album exchanged
SongOfRowSwapped(songRow) ==
    [artist |-> songRow[1], title |-> songRow[3],
     album |-> songRow[2], isrc |-> songRow[4]]

\* lines 137-141: the song of a row
SongOfRow(songRow) ==
    [artist |-> songRow[1], title |-> songRow[2],
     album |-> songRow[3], isrc |-> songRow[4]]

(***************************************************************************)
(* name_filter.filter_list (ultrasonics/tools/name_filter.py, a            *)
(* collaborator of the plugin): the names the pattern matches, in order;   *)
(* an empty pattern matches everything.  Patterns of the model are literal *)
(* words, searched without regard to case.                                 *)
(***************************************************************************)
Lower(c) ==
    CASE c = "T" -> "t"
      [] c = "D" -> "d"
      [] OTHER -> c

LowerStr(s) == [k \in 1..Len(s) |-> Lower(s[k])]

Contains(s, w) ==
    \E i \in 0..(Len(s) - Len(w)) : SubSeq(s, i + 1, i + Len(w)) = w

PatternMatches(pattern, name) ==
    pattern = <<>> \/ Contains(LowerStr(name), LowerStr(pattern))

filter_list(names, pattern) ==
    SelectSeq(names, LAMBDA n : PatternMatches(pattern, n))

(***************************************************************************)
(* The directory tree.  A tree is a sequence of entries in the order the   *)
(* operating system enumerates them; an entry is a file or a directory     *)
(* with the directory that holds it.  A file opens (status "ok"), fails to *)
(* open ("denied") or opens and fails to decode as utf8 ("undecodable").   *)
(***************************************************************************)
BaseDir == <<"/", "p", "l">>
SubDir == <<"/", "p", "l", "/", "s", "u", "b">>
DeepDir == <<"/", "p", "l", "/", "s", "u", "b", "/", "d", "e", "e", "p">>

TopCsv == <<"T", "o", "p", ".", "c", "s", "v">>
TopTxt == <<"T", "o", "p", ".", "t", "x", "t">>
DiscoCsv == <<"D", "i", "s", "c", "o", ".", "c", "s", "v">>
DotCsv == <<".", "c", "s", "v">>
DCsv == <<"d", ".", "c", "s", "v">>
TopName == <<"T", "o", "p">>
DiscoName == <<"D", "i", "s", "c", "o">>

\* the entries a tree of the model is drawn from, in enumeration order;
\* parent is the slot of the directory entry that holds it (0: the base)
Slots ==
    << [dir |-> BaseDir, name |-> TopCsv, kind |-> "file", parent |-> 0],
       [dir |-> BaseDir, name |-> TopTxt, kind |-> "file", parent |-> 0],
       [dir |-> BaseDir, name |-> DiscoCsv, kind |-> "file", parent |-> 0],
       [dir |-> BaseDir, name |-> DCsv, kind |-> "dir", parent |-> 0],
       [dir |-> BaseDir, name |-> <<"s", "u", "b">>, kind |-> "dir", parent |-> 0],
       [dir |-> SubDir, name |-> TopCsv, kind |-> "file", parent |-> 5],
       [dir |-> SubDir, name |-> <<"d", "e", "e", "p">>, kind |-> "dir", parent |-> 5],
       [dir |-> DeepDir, name |-> DiscoCsv, kind |-> "file", parent |-> 7],
       [dir |-> BaseDir, name |-> DotCsv, kind |-> "file", parent |-> 0] >>

\* csv lines: Queen,Bohemian Rhapsody,A Night at the Opera,GBUM71029604 and
\* ABBA,Dancing Queen,Arrival,SEAB89800001 abbreviated to their initials
LQueen == <<"Q", ",", "B", "R", ",", "N", ",", "G">>
LAbba == <<"A", ",", "D", "Q", ",", "A", ",", "S">>
LBad == <<"b", "a", "d">>
LShort == <<"X", ",", "Y", ",", "Z">>
LFive == <<"V", ",", "W", ",", "X", ",", "Y", ",", "Z">>
Lines == {LQueen, LAbba, LBad, LShort, LFive}

GoodLines == <<LQueen, LAbba>>
MixedLines == <<LQueen, LBad, LAbba>>
FiveLines == <<LQueen, LAbba, LFive, LAbba, LQueen>>

FileStates ==
    { [status |-> "denied", lines |-> <<>>],
      [status |-> "ok", lines |-> GoodLines],
      [status |-> "ok", lines |-> MixedLines] }

Node(slot, state) ==
    [dir |-> Slots[slot].dir, name |-> Slots[slot].name, kind |-> Slots[slot].kind,
     status |-> state.status, lines |-> state.lines]

DirState == [status |-> "ok", lines |-> <<>>]

RECURSIVE OrderedSlots(_)
OrderedSlots(S) ==
    IF S = {} THEN <<>>
    ELSE LET m == CHOOSE x \in S : \A y \in S : x <= y
         IN  <<m>> \o OrderedSlots(S \ {m})

SlotSets ==
    { S \in SUBSET (1..Len(Slots)) :
        /\ Cardinality(S) <= MaxEntries
        /\ \A i \in S : Slots[i].parent # 0 => Slots[i].parent \in S }

FileSlots(S) == { i \in S : Slots[i].kind = "file" }

MkTree(S, a) ==
    LET order == OrderedSlots(S)
    IN  [k \in 1..Len(order) |->
            IF order[k] \in DOMAIN a THEN Node(order[k], a[order[k]])
            ELSE Node(order[k], DirState)]

\* trees that vary in shape
StructTrees ==
    UNION { { MkTree(S, a) : a \in [FileSlots(S) -> FileStates] } : S \in SlotSets }

RECURSIVE SeqsUpTo(_, _)
SeqsUpTo(S, n) ==
    IF n = 0 THEN { <<>> }
    ELSE LET shorter == SeqsUpTo(S, n - 1)
         IN  shorter \cup { Append(q, x) : q \in { r \in shorter : Len(r) = n - 1 }, x \in S }

\* trees that vary in the rows of their one playlist
RowTrees ==
    { << Node(1, [status |-> "ok", lines |-> ls]) >> : ls \in SeqsUpTo(Lines, MaxRows) }
    \cup { << Node(1, [status |-> "undecodable", lines |-> GoodLines]) >>,
           << Node(3, [status |-> "ok", lines |-> FiveLines]) >> }

Trees == StructTrees \cup RowTrees

(***************************************************************************)
(* The file system calls of run.                                           *)
(***************************************************************************)
\* the directory a path names: the operating system ignores trailing "/"
Resolve(p) == RStrip(p, "/")

NodePath(n) == PathJoin(n.dir, n.name)

\* whether os.listdir(p) and os.scandir(p) succeed
IsDir(tree, p) ==
    \/ Resolve(p) = BaseDir
    \/ \E i \in 1..Len(tree) : tree[i].kind = "dir" /\ NodePath(tree[i]) = Resolve(p)

Entries(tree, p) == SelectSeq(tree, LAMBDA n : n.dir = Resolve(p))

NamesOf(nodes) == [k \in 1..Len(nodes) |-> nodes[k].name]

\* os.listdir(p): the names of all entries of p, files and directories
ListDir(tree, p) == NamesOf(Entries(tree, p))

RECURSIVE Walk(_, _, _)
RECURSIVE WalkEach(_, _, _, _)
\* os.walk(top): top-down (root, files) pairs; a directory that cannot be
\* scanned is skipped without an exception (onerror is None)
Walk(tree, top, fuel) ==
    IF fuel = 0 \/ ~IsDir(tree, top) THEN <<>>
    ELSE LET ents == Entries(tree, top)
             files == SelectSeq(ents, LAMBDA n : n.kind = "file")
             dirs == SelectSeq(ents, LAMBDA n : n.kind = "dir")
         IN  << [root |-> top, files |-> NamesOf(files)] >>
             \o WalkEach(tree, top, NamesOf(dirs), fuel - 1)

WalkEach(tree, top, dirs, fuel) ==
    IF dirs = <<>> THEN <<>>
    ELSE Walk(tree, PathJoin(top, Head(dirs)), fuel)
         \o WalkEach(tree, top, Tail(dirs), fuel)

\* lines 86-90 and 95-99: one candidate per item of a listing
CandidatesOf(root, files) ==
    [k \in 1..Len(files) |->
        [name |-> SplitExtRoot(files[k]), path |-> PathJoin(root, files[k])]]

RECURSIVE CandidatesOfWalk(_)
\* lines 85-90: the candidates of every (root, files) pair of the walk
CandidatesOfWalk(pairs) ==
    IF pairs = <<>> THEN <<>>
    ELSE CandidatesOf(Head(pairs).root, Head(pairs).files)
         \o CandidatesOfWalk(Tail(pairs))

\* lines 94-99: the candidates of the non-recursive mode
ListCandidates(tree, p) == CandidatesOf(p, ListDir(tree, p))

\* lines 85-90: the candidates of the recursive mode
WalkCandidates(tree, p) == CandidatesOfWalk(Walk(tree, p, Len(tree) + 1))

\* lines 105-106: the candidates whose extension is supported
FilterExtensions(list) ==
    SelectSeq(list, LAMBDA item : SplitExtExt(item.path) \in supported_playlist_extensions)

NamesOfCandidates(list) == [k \in 1..Len(list) |-> list[k].name]

InSeq(x, s) == \E k \in 1..Len(s) : s[k] = x

\* a variant of lines 120-121 that ignores the filtered titles
KeepAllNames(list, titles) == list

\* lines 120-121: the candidates whose name is among the filtered titles
RestrictToTitles(list, titles) ==
    SelectSeq(list, LAMBDA item : InSeq(item.name, titles))

\* the entry at a path: << >> when nothing is there
NodesAt(tree, p) == SelectSeq(tree, LAMBDA n : NodePath(n) = p)

\* whether io.open(p, 'r', encoding='utf8') succeeds
Opens(tree, p) ==
    /\ NodesAt(tree, p) # <<>>
    /\ NodesAt(tree, p)[1].kind = "file"
    /\ NodesAt(tree, p)[1].status # "denied"

\* whether iterating the reader decodes the file
Decodes(tree, p) == NodesAt(tree, p)[1].status = "ok"

\* the lines of the file at p
LinesAt(tree, p) == NodesAt(tree, p)[1].lines

(***************************************************************************)
(* The state of one call of run(settings_dict, **kwargs).                  *)
(***************************************************************************)
VARIABLES
    settings_dict,     \* the settings: dir, recursive, filter, backup
    kwargs,            \* the keyword arguments: component, songs_dict
    tree,              \* the directory tree on disk
    pc,                \* where the call is
    path,              \* line 76
    playlists,         \* lines 77-121
    filter_titles,     \* lines 114-116
    songs_dict,        \* lines 73 and 111
    songs_dict_entry,  \* line 126
    reader,            \* line 134: the rows not yet read
    idx,               \* the position of the loop of line 123 in playlists
    log,               \* the records written through log.error and log.info
    ret,               \* what the call returned
    err                \* the exception that left the call, "" when none

vars ==
    << settings_dict, kwargs, tree, pc, path, playlists, filter_titles, songs_dict,
       songs_dict_entry, reader, idx, log, ret, err >>

inputs == << settings_dict, kwargs, tree >>

NoEntry == [name |-> <<>>, id |-> {}, songs |-> <<>>]
NotReturned == [kind |-> "unset", value |-> <<>>]

\* the songs a caller hands to an output run: Disco with three songs
SuppliedSongs ==
    << [name |-> DiscoName, id |-> { <<"spotify", "x1">> },
        songs |-> << SongOfRow(CsvRow(LAbba)), SongOfRow(CsvRow(LQueen)),
                     SongOfRow(CsvRow(LFive)) >>] >>

SongsArgs == { <<>>, SuppliedSongs }

DirSettings ==
    { BaseDir, BaseDir \o <<"/">>, <<"/", "n", "o">> }

Filters == { <<>>, <<"t", "o">>, <<"d", "i", "s", "c">> }

Locals ==
    /\ pc = "start"
    /\ path = <<>>
    /\ playlists = <<>>
    /\ filter_titles = <<>>
    /\ songs_dict = kwargs.songs_dict
    /\ songs_dict_entry = NoEntry
    /\ reader = <<>>
    /\ idx = 0
    /\ log = <<>>
    /\ ret = NotReturned
    /\ err = ""

InitInputs ==
    /\ kwargs \in [component : {"inputs"}, songs_dict : SongsArgs]
    /\ settings_dict \in [dir : DirSettings, recursive : {"Yes", "No"},
                          filter : Filters, backup : {"No"}]

InitOutputs ==
    /\ kwargs \in [component : {"outputs"}, songs_dict : SongsArgs]
    /\ settings_dict \in [dir : DirSettings, recursive : {"Yes", "No"},
                          filter : { <<>> }, backup : {"Yes", "No"}]

Init ==
    /\ tree \in Trees
    /\ InitInputs \/ InitOutputs
    /\ Locals

(***************************************************************************)
(* The steps of run.                                                       *)
(***************************************************************************)
\* lines 75-77
Normalize ==
    /\ pc = "start"
    /\ path' = NormalizePath(settings_dict.dir)
    /\ playlists' = <<>>
    /\ pc' = "normalized"
    /\ UNCHANGED << inputs, filter_titles, songs_dict, songs_dict_entry, reader,
                    idx, log, ret, err >>

\* lines 83-90: the recursive mode; os.walk raises nothing
WalkDirectory ==
    /\ pc = "normalized"
    /\ settings_dict.recursive = "Yes"
    /\ playlists' = WalkCandidates(tree, path)
    /\ pc' = "listed"
    /\ UNCHANGED << inputs, path, filter_titles, songs_dict, songs_dict_entry,
                    reader, idx, log, ret, err >>

\* lines 92-99: the non-recursive mode
ListDirectory ==
    /\ pc = "normalized"
    /\ settings_dict.recursive # "Yes"
    /\ IsDir(tree, path)
    /\ playlists' = ListCandidates(tree, path)
    /\ pc' = "listed"
    /\ UNCHANGED << inputs, path, filter_titles, songs_dict, songs_dict_entry,
                    reader, idx, log, ret, err >>

\* lines 94 and 101-102: os.listdir raises, the handler logs the exception
ListDirectoryFails ==
    /\ pc = "normalized"
    /\ settings_dict.recursive # "Yes"
    /\ ~IsDir(tree, path)
    /\ log' = Append(log, [level |-> "error", what |-> "listdir", n |-> 0])
    /\ pc' = "listed"
    /\ UNCHANGED << inputs, path, playlists, filter_titles, songs_dict,
                    songs_dict_entry, reader, idx, ret, err >>

\* lines 105-108
SelectExtensions ==
    /\ pc = "listed"
    /\ playlists' = FilterExtensions(playlists)
    /\ log' = Append(log, [level |-> "info", what |-> "found",
                           n |-> Len(FilterExtensions(playlists))])
    /\ pc' = "discovered"
    /\ UNCHANGED << inputs, path, filter_titles, songs_dict, songs_dict_entry,
                    reader, idx, ret, err >>

\* line 110 is false and the function ends: the call returns None
ReturnNone ==
    /\ pc = "discovered"
    /\ kwargs.component # "inputs"
    /\ ret' = [kind |-> "none", value |-> <<>>]
    /\ pc' = "returned"
    /\ UNCHANGED << inputs, path, playlists, filter_titles, songs_dict,
                    songs_dict_entry, reader, idx, log, err >>

\* a variant of line 111 that keeps the songs of the caller
KeepSongs(supplied) == supplied

\* line 111: songs_dict = []
FreshSongs(supplied) == <<>>

\* lines 110-121
SelectNames ==
    /\ pc = "discovered"
    /\ kwargs.component = "inputs"
    /\ songs_dict' = FreshSongs(songs_dict)
    /\ LET titles == filter_list(NamesOfCandidates(playlists), settings_dict.filter)
       IN  /\ filter_titles' = titles
           /\ playlists' = RestrictToTitles(playlists, titles)
           /\ log' = Append(log, [level |-> "info", what |-> "match", n |-> Len(titles)])
    /\ idx' = 1
    /\ pc' = "loop"
    /\ UNCHANGED << inputs, path, songs_dict_entry, reader, ret, err >>

\* lines 123-134: the next playlist opens
OpenPlaylist ==
    /\ pc = "loop"
    /\ idx <= Len(playlists)
    /\ Opens(tree, playlists[idx].path)
    /\ songs_dict_entry' = [name |-> playlists[idx].name, id |-> {}, songs |-> <<>>]
    /\ reader' = CsvReader(LinesAt(tree, playlists[idx].path))
    /\ pc' = "reading"
    /\ UNCHANGED << inputs, path, playlists, filter_titles, songs_dict, idx, log,
                    ret, err >>

\* line 133: io.open raises and nothing catches it
OpenPlaylistFails ==
    /\ pc = "loop"
    /\ idx <= Len(playlists)
    /\ ~Opens(tree, playlists[idx].path)
    /\ songs_dict_entry' = [name |-> playlists[idx].name, id |-> {}, songs |-> <<>>]
    /\ err' = "OSError"
    /\ pc' = "raised"
    /\ UNCHANGED << inputs, path, playlists, filter_titles, songs_dict, reader,
                    idx, log, ret >>

\* line 136: the reader fails to decode the file and nothing catches it
DecodeFails ==
    /\ pc = "reading"
    /\ ~Decodes(tree, playlists[idx].path)
    /\ err' = "UnicodeDecodeError"
    /\ pc' = "raised"
    /\ UNCHANGED << inputs, path, playlists, filter_titles, songs_dict,
                    songs_dict_entry, reader, idx, log, ret >>

\* lines 136-144: one row with the columns the body reads
ReadRow ==
    /\ pc = "reading"
    /\ Decodes(tree, playlists[idx].path)
    /\ reader # <<>>
    /\ Len(Head(reader)) >= MinColumns
    /\ songs_dict_entry' =
          [songs_dict_entry EXCEPT !.songs = Append(@, SongOfRow(Head(reader)))]
    /\ reader' = Tail(reader)
    /\ UNCHANGED << inputs, pc, path, playlists, filter_titles, songs_dict, idx,
                    log, ret, err >>

\* lines 138-141: a column index is out of range and nothing catches it
ReadRowFails ==
    /\ pc = "reading"
    /\ Decodes(tree, playlists[idx].path)
    /\ reader # <<>>
    /\ Len(Head(reader)) < MinColumns
    /\ err' = "IndexError"
    /\ pc' = "raised"
    /\ UNCHANGED << inputs, path, playlists, filter_titles, songs_dict,
                    songs_dict_entry, reader, idx, log, ret >>

\* line 147: the rows are exhausted, the entry joins songs_dict
AppendEntry ==
    /\ pc = "reading"
    /\ Decodes(tree, playlists[idx].path)
    /\ reader = <<>>
    /\ songs_dict' = Append(songs_dict, songs_dict_entry)
    /\ idx' = idx + 1
    /\ pc' = "loop"
    /\ UNCHANGED << inputs, path, playlists, filter_titles, songs_dict_entry,
                    reader, log, ret, err >>

\* line 149
ReturnSongs ==
    /\ pc = "loop"
    /\ idx > Len(playlists)
    /\ ret' = [kind |-> "list", value |-> songs_dict]
    /\ pc' = "returned"
    /\ UNCHANGED << inputs, path, playlists, filter_titles, songs_dict,
                    songs_dict_entry, reader, idx, log, err >>

Next ==
    \/ Normalize
    \/ WalkDirectory
    \/ ListDirectory
    \/ ListDirectoryFails
    \/ SelectExtensions
    \/ ReturnNone
    \/ SelectNames
    \/ OpenPlaylist
    \/ OpenPlaylistFails
    \/ DecodeFails
    \/ ReadRow
    \/ ReadRowFails
    \/ AppendEntry
    \/ ReturnSongs

Spec == Init /\ [][Next]_vars

(***************************************************************************)
(* The path normalisation alone, over every short directory setting.       *)
(***************************************************************************)
PathChars == {"p", "/", "\\"}

InitNorm ==
    /\ tree = <<>>
    /\ kwargs = [component |-> "inputs", songs_dict |-> <<>>]
    /\ settings_dict \in [dir : SeqsUpTo(PathChars, MaxDirLen), recursive : {"No"},
                          filter : { <<>> }, backup : {"No"}]
    /\ Locals

NextNorm == Normalize

SpecNorm == InitNorm /\ [][NextNorm]_vars

(***************************************************************************)
(* Vocabulary of the properties.                                           *)
(***************************************************************************)
Done == pc \in {"returned", "raised"}

CsvExt == <<".", "c", "s", "v">>

\* whether s ends with suffix
EndsWith(s, suffix) ==
    /\ Len(s) >= Len(suffix)
    /\ SubSeq(s, Len(s) - Len(suffix) + 1, Len(s)) = suffix

\* a name made of a non-empty stem and a supported extension
NamedAsPlaylist(name) ==
    \E e \in supported_playlist_extensions : EndsWith(name, e) /\ Len(name) > Len(e)

\* lines 82-106 as one function of the inputs
Discovered(t, p, recursive) ==
    FilterExtensions(
        IF recursive = "Yes" THEN WalkCandidates(t, p)
        ELSE IF IsDir(t, p) THEN ListCandidates(t, p)
        ELSE <<>>)

DiscoveredNow == Discovered(tree, NormalizePath(settings_dict.dir), settings_dict.recursive)

ReturnedNames == [k \in 1..Len(ret.value) |-> ret.value[k].name]

SeqRange(s) == { s[k] : k \in 1..Len(s) }

ReturnedToInput == pc = "returned" /\ kwargs.component = "inputs"

ReturnedToOutput == pc = "returned" /\ kwargs.component = "outputs"

\* the rows of the file at p that have the columns of a song, as songs
WellFormedSongs(p) ==
    LET rows == SelectSeq(CsvReader(LinesAt(tree, p)), LAMBDA r : Len(r) >= MinColumns)
    IN  [k \in 1..Len(rows) |-> SongOfRow(rows[k])]

Readable(p) == Opens(tree, p) /\ Decodes(tree, p)

\* whether the file at p holds exactly these songs, one four-column row each
FileHolds(p, songs) ==
    /\ Readable(p)
    /\ LET rows == CsvReader(LinesAt(tree, p))
       IN  /\ Len(rows) = Len(songs)
           /\ \A k \in 1..Len(rows) :
                 Len(rows[k]) = MinColumns /\ SongOfRow(rows[k]) = songs[k]

\* the existing candidates that carry the name of an entry
Matching(entry) == SelectSeq(playlists, LAMBDA c : c.name = entry.name)

\* the file an output run keys an entry to
TargetOf(entry) ==
    IF Matching(entry) # <<>> THEN Matching(entry)[1].path
    ELSE PathJoin(path, entry.name \o CsvExt)

(***************************************************************************)
(* C1.  Discovery yields exactly the files with a supported extension:     *)
(* those directly in the base directory in the non-recursive mode, those   *)
(* at any depth in the recursive mode, whatever else the tree holds; and   *)
(* every candidate that survives the filter has a path ending in a         *)
(* supported extension.                                                    *)
(***************************************************************************)
C1_DiscoveryCountsFiles ==
    (pc = "discovered" /\ Resolve(path) = BaseDir) =>
        /\ Len(playlists) =
              Cardinality({ i \in 1..Len(tree) :
                              /\ tree[i].kind = "file"
                              /\ NamedAsPlaylist(tree[i].name)
                              /\ settings_dict.recursive # "Yes" => tree[i].dir = BaseDir })
        /\ \A k \in 1..Len(playlists) : EndsWith(playlists[k].path, CsvExt)

(***************************************************************************)
(* C2.  In input role the names of the returned entries are exactly the    *)
(* names the name filter returns for the discovered names; with an empty   *)
(* pattern they are all the discovered names.                              *)
(***************************************************************************)
C2_NamesAreFilteredNames ==
    ReturnedToInput =>
        /\ SeqRange(ReturnedNames) =
              SeqRange(filter_list(NamesOfCandidates(DiscoveredNow), settings_dict.filter))
        /\ settings_dict.filter = <<>> => ReturnedNames = NamesOfCandidates(DiscoveredNow)

\* a run that found Top and Disco and returned Top alone under the pattern "to"
C2_Witness ==
    /\ ReturnedToInput
    /\ settings_dict.filter = <<"t", "o">>
    /\ SeqRange(NamesOfCandidates(DiscoveredNow)) = {TopName, DiscoName}
    /\ ReturnedNames = <<TopName>>

(***************************************************************************)
(* C3.  In input role, a file whose rows all have at least 4 columns       *)
(* yields an entry named after the file whose songs are its rows in file   *)
(* order, artist, title, album and isrc being columns 0, 1, 2 and 3.       *)
(***************************************************************************)
C3_RowsBecomeSongs ==
    ReturnedToInput =>
        \A i \in 1..Len(playlists) :
            LET rows == CsvReader(LinesAt(tree, playlists[i].path))
            IN  (\A k \in 1..Len(rows) : Len(rows[k]) >= MinColumns) =>
                    /\ i <= Len(ret.value)
                    /\ EndsWith(playlists[i].path, <<"/">> \o ret.value[i].name \o CsvExt)
                    /\ Len(ret.value[i].songs) = Len(rows)
                    /\ \A k \in 1..Len(rows) :
                          /\ ret.value[i].songs[k].artist = rows[k][1]
                          /\ ret.value[i].songs[k].title = rows[k][2]
                          /\ ret.value[i].songs[k].album = rows[k][3]
                          /\ ret.value[i].songs[k].isrc = rows[k][4]

\* /pl holds Top.csv with the Queen row and the ABBA row; recursive is No and
\* the filter is empty: one entry named Top with the two songs in that order
C3_Witness ==
    /\ ReturnedToInput
    /\ settings_dict.recursive = "No"
    /\ settings_dict.filter = <<>>
    /\ Len(tree) = 1
    /\ NodePath(tree[1]) = BaseDir \o <<"/">> \o TopCsv
    /\ tree[1].lines = <<LQueen, LAbba>>
    /\ ret.value =
          << [name |-> TopName, id |-> {},
              songs |-> << [artist |-> <<"Q">>, title |-> <<"B", "R">>,
                            album |-> <<"N">>, isrc |-> <<"G">>],
                           [artist |-> <<"A">>, title |-> <<"D", "Q">>,
                            album |-> <<"A">>, isrc |-> <<"S">>] >>] >>

(***************************************************************************)
(* C4.  In input role a row with fewer than 4 columns is skipped without   *)
(* aborting the file or the run: when every candidate opens and decodes,   *)
(* the run returns, and each entry holds every well-formed row of its      *)
(* file, in order.                                                         *)
(***************************************************************************)
C4_MalformedRowsSkipped ==
    (Done /\ kwargs.component = "inputs"
          /\ \A i \in 1..Len(playlists) : Readable(playlists[i].path)) =>
        /\ pc = "returned"
        /\ Len(ret.value) = Len(playlists)
        /\ \A i \in 1..Len(playlists) :
              ret.value[i].songs = WellFormedSongs(playlists[i].path)

(***************************************************************************)
(* C5.  In input role a candidate file that fails to open or decode is     *)
(* left out and is not fatal: when every candidate is a regular file and   *)
(* the rows of the readable ones are all well formed, the run returns the  *)
(* entries of the readable candidates, those before and those after a      *)
(* failing one.                                                            *)
(***************************************************************************)
C5_UnreadableFileExcluded ==
    (Done /\ kwargs.component = "inputs"
          /\ \A i \in 1..Len(playlists) :
                /\ NodesAt(tree, playlists[i].path)[1].kind = "file"
                /\ Readable(playlists[i].path) =>
                      \A r \in SeqRange(CsvReader(LinesAt(tree, playlists[i].path))) :
                          Len(r) >= MinColumns) =>
        /\ pc = "returned"
        /\ LET readable == SelectSeq(playlists, LAMBDA c : Readable(c.path))
           IN  /\ Len(ret.value) = Len(readable)
               /\ \A i \in 1..Len(readable) :
                     /\ ret.value[i].name = readable[i].name
                     /\ ret.value[i].songs = WellFormedSongs(readable[i].path)

(***************************************************************************)
(* C6.  When the base directory cannot be listed or walked, in either      *)
(* mode, the run logs the error, has no candidates and does not abort: in  *)
(* input role it returns the empty sequence.                               *)
(***************************************************************************)
C6_DirectoryErrorLogged ==
    (Done /\ kwargs.component = "inputs" /\ ~IsDir(tree, path)) =>
        /\ pc = "returned"
        /\ \E k \in 1..Len(log) : log[k].level = "error"
        /\ playlists = <<>>
        /\ ret = [kind |-> "list", value |-> <<>>]

(***************************************************************************)
(* C7.  In output role, after the run, the file keyed by the name of each  *)
(* supplied entry (the existing file of that name, else a new file         *)
(* base/<name>.csv) holds exactly the songs of the entry, in order.        *)
(***************************************************************************)
C7_OutputReplacesFile ==
    (ReturnedToOutput /\ Resolve(path) = BaseDir) =>
        \A e \in SeqRange(kwargs.songs_dict) : FileHolds(TargetOf(e), e.songs)

(***************************************************************************)
(* C8.  In output role with backups enabled, after the run every supplied  *)
(* entry that matches an existing file has a backup: a file at another     *)
(* path whose content is the content the target had before the run.  No    *)
(* step of the run writes the tree, so that content is the one in tree.    *)
(***************************************************************************)
C8_BackupBeforeOverwrite ==
    (ReturnedToOutput /\ settings_dict.backup = "Yes" /\ Resolve(path) = BaseDir) =>
        \A e \in SeqRange(kwargs.songs_dict) :
            Matching(e) # <<>> =>
                \E k \in 1..Len(tree) :
                    /\ tree[k].kind = "file"
                    /\ NodePath(tree[k]) # TargetOf(e)
                    /\ tree[k].status = NodesAt(tree, TargetOf(e))[1].status
                    /\ tree[k].lines = NodesAt(tree, TargetOf(e))[1].lines

(***************************************************************************)
(* C9.  The normalised base path ends in neither "/" nor "\", whatever     *)
(* mix of the two the directory setting ends in, and normalising it again  *)
(* changes nothing.                                                        *)
(***************************************************************************)
C9_PathNormalized ==
    pc = "normalized" =>
        /\ path = <<>> \/ path[Len(path)] \notin {"/", "\\"}
        /\ NormalizePath(path) = path

(***************************************************************************)
(* C10.  In input role a run that returns gives one entry per candidate    *)
(* that passes the extension filter and the name filter, in discovery      *)
(* order, each with an empty id mapping; candidates of the same name keep  *)
(* an entry each, and the songs of the caller add nothing.                 *)
(***************************************************************************)
C10_OneEntryPerCandidate ==
    ReturnedToInput =>
        LET titles == filter_list(NamesOfCandidates(DiscoveredNow), settings_dict.filter)
            expected == SelectSeq(DiscoveredNow, LAMBDA c : InSeq(c.name, titles))
        IN  /\ Len(ret.value) = Len(expected)
            /\ \A i \in 1..Len(expected) :
                  /\ ret.value[i].name = expected[i].name
                  /\ ret.value[i].id = {}
                  /\ ret.value[i].songs = WellFormedSongs(expected[i].path)

\* a recursive run over /pl/Top.csv and /pl/sub/Top.csv, handed the songs of
\* a caller, returns two entries named Top
C10_Witness ==
    /\ ReturnedToInput
    /\ kwargs.songs_dict = SuppliedSongs
    /\ settings_dict.recursive = "Yes"
    /\ Len(ret.value) = 2
    /\ ret.value[1].name = TopName
    /\ ret.value[2].name = TopName
    /\ \A i \in 1..2 : ret.value[i].id = {} /\ ret.value[i].songs # <<>>

=============================================================================
